---- MODULE Spec2Model ----
(***************************************************************************)
(* Model of RiskLabAI/data/structures/utilities.py : compute_thresholds.   *)
(*                                                                         *)
(* float64 values are modelled as exact fractions n/d (d > 0, lowest       *)
(* terms) extended with the IEEE-754 specials: d = 0 with n = 1 is +inf,   *)
(* n = -1 is -inf and n = 0 is NaN.  Rounding is not modelled.             *)
(* numpy arrays are functions over 0 .. n-1 (the source's indexing);       *)
(* Python lists are sequences (list index k is sequence index k+1).        *)
(***************************************************************************)
EXTENDS Integers, Sequences, FiniteSets, TLC

\* ---------------------------------------------------------------- bounds
MaxLen == 4
MaxRuns == 2

\* ------------------------------------------------------- float64 values
RECURSIVE Gcd(_, _)
Gcd(a, b) == IF b = 0 THEN a ELSE Gcd(b, a % b)

IAbs(k) == IF k < 0 THEN -k ELSE k

Sgn(k) == IF k > 0 THEN 1 ELSE IF k < 0 THEN -1 ELSE 0

Fin(n, d) ==
    LET g == Gcd(IAbs(n), IAbs(d))
        s == Sgn(d)
    IN  [n |-> (s * n) \div g, d |-> (s * d) \div g]

Zero == [n |-> 0, d |-> 1]
PInf == [n |-> 1, d |-> 0]
NInf == [n |-> -1, d |-> 0]
NaN == [n |-> 0, d |-> 0]

IsNaN(x) == x.d = 0 /\ x.n = 0
IsInf(x) == x.d = 0 /\ x.n # 0
IsFinite(x) == x.d > 0
IsZero(x) == x.d > 0 /\ x.n = 0

SignedInf(s) == IF s > 0 THEN PInf ELSE IF s < 0 THEN NInf ELSE NaN

Add(x, y) ==
    IF IsNaN(x) \/ IsNaN(y) THEN NaN
    ELSE IF IsInf(x) /\ IsInf(y) THEN (IF x.n = y.n THEN x ELSE NaN)
    ELSE IF IsInf(x) THEN x
    ELSE IF IsInf(y) THEN y
    ELSE LET g == Gcd(x.d, y.d)
         IN  Fin(x.n * (y.d \div g) + y.n * (x.d \div g),
                 (x.d \div g) * y.d)

Mul(x, y) ==
    IF IsNaN(x) \/ IsNaN(y) THEN NaN
    ELSE IF IsInf(x) \/ IsInf(y) THEN SignedInf(Sgn(x.n) * Sgn(y.n))
    ELSE LET a == Fin(x.n, y.d)
             b == Fin(y.n, x.d)
         IN  Fin(a.n * b.n, a.d * b.d)

Div(x, y) ==
    IF IsNaN(x) \/ IsNaN(y) THEN NaN
    ELSE IF IsInf(x) /\ IsInf(y) THEN NaN
    ELSE IF IsInf(x) THEN (IF y.n < 0 THEN SignedInf(-x.n) ELSE x)
    ELSE IF IsInf(y) THEN Zero
    ELSE IF y.n = 0 THEN SignedInf(Sgn(x.n))
    ELSE LET a == Fin(x.n, y.n)
             b == Fin(y.d, x.d)
         IN  Fin(a.n * b.n, a.d * b.d)

\* np.abs is missing
AbsMissing(x) == x

Abs(x) == [n |-> IAbs(x.n), d |-> x.d]

Geq(x, y) ==
    IF IsNaN(x) \/ IsNaN(y) THEN FALSE
    ELSE IF x = PInf \/ y = NInf THEN TRUE
    ELSE IF x = NInf \/ y = PInf THEN FALSE
    ELSE x.n * y.d >= y.n * x.d

Gt(x, y) == Geq(x, y) /\ ~Geq(y, x)

RECURSIVE Pow(_, _)
Pow(x, k) == IF k = 0 THEN Fin(1, 1) ELSE Mul(x, Pow(x, k - 1))

\* ----------------------------------------- RiskLabAI.utils smoothing
\* alpha = 2 / (window_length + 1); the decay factor is 1 - alpha.
Decay(window_length) == Fin(window_length - 1, window_length + 1)

\* Output k (0-based) of the recursion over array a (a sequence):
\*   weight_k = weight_{k-1} + decay^k, old_k = old_{k-1} * decay + a[k],
\*   out_k = old_k / weight_k, with out_0 = a[0].
RECURSIVE EwmaWeight(_, _)
EwmaWeight(r, k) ==
    IF k = 0 THEN Fin(1, 1) ELSE Add(EwmaWeight(r, k - 1), Pow(r, k))

RECURSIVE EwmaOld(_, _, _)
EwmaOld(a, r, k) ==
    IF k = 0 THEN a[1] ELSE Add(Mul(EwmaOld(a, r, k - 1), r), a[k + 1])

exponential_weighted_moving_average(a, window_length) ==
    LET r == Decay(window_length)
    IN  [k \in 1 .. Len(a) |->
            IF k = 1 THEN a[1]
            ELSE Div(EwmaOld(a, r, k - 1), EwmaWeight(r, k - 1))]

Last(s) == s[Len(s)]

\* ------------------------------------------------------------- inputs
FeatureValues == {Fin(-2, 1), Zero, Fin(1, 1), PInf, NaN}
TickSeeds == {0, 1, 2, 3}
BarSeeds == {Zero, Fin(1, 2), Fin(2, 1)}

VARIABLES
    target_column,          \* the feature series (function over 0 .. n-1)
    initial_expected_ticks, \* seed, an integer
    initial_bar_size,       \* seed, a float
    pc,                     \* "start", "scan", "done" or "error"
    i,                      \* loop index of the next iteration
    absolute_thetas, thresholds, thetas, grouping_ids,
    current_theta, current_grouping_id,
    time_deltas, times, previous_time,
    expected_ticks, expected_bar_value,
    start_time,             \* time.time() taken before the loop
    clock,                  \* the wall clock read by time.time()
    progress,               \* arguments of the last progress_bar call
    run,                    \* number of the current invocation
    first                   \* what the first invocation returned

vars == <<target_column, initial_expected_ticks, initial_bar_size, pc, i,
          absolute_thetas, thresholds, thetas, grouping_ids,
          current_theta, current_grouping_id, time_deltas, times,
          previous_time, expected_ticks, expected_bar_value,
          start_time, clock, progress, run, first>>

inputs == <<target_column, initial_expected_ticks, initial_bar_size>>

num_values == Cardinality(DOMAIN target_column)

\* the tuple of line 82
Outputs ==
    <<time_deltas, absolute_thetas, thresholds, times, thetas, grouping_ids>>

\* ------------------------------------------------ pieces of the body
\* a buffer one element too long
ZerosOffByOne(len) == [k \in 0 .. len |-> Zero]

Zeros(len) == [k \in 0 .. len - 1 |-> Zero]

ZeroIds(len) == [k \in 0 .. len - 1 |-> 0]

\* the list of the previous invocation is reused
StaleList == time_deltas

FreshList == << >>

\* the statistic starts from zero, features[0] is dropped
SeedThetaZero(a) == Zero

SeedTheta(a) == a[0]

\* a unit tick estimate replaces the argument
SeedTicksUnit(ticks) == Fin(1, 1)

SeedTicks(ticks) == Fin(ticks, 1)

\* a unit bar size replaces the argument
SeedBarValueUnit(bar) == Fin(1, 1)

SeedBarValue(bar) == bar

FirstIndex == 1

\* magnitudes are accumulated instead of signed values
NextThetaOfMagnitudes(theta, x) == Add(theta, Abs(x))

NextTheta(theta, x) == Add(theta, x)

\* the seed is used in place of the running estimate
ThresholdFromSeed(ticks, bar) == Mul(Fin(initial_expected_ticks, 1), bar)

\* previous_time is used in place of expected_ticks
ThresholdFromPreviousTime(ticks, bar) == Mul(Fin(previous_time, 1), bar)

Threshold(ticks, bar) == Mul(ticks, bar)

\* the id is recorded after the increment of line 64
GroupIdAfterIncrement(id, boundary) == IF boundary THEN id + 1 ELSE id

GroupIdAt(id, boundary) == id

\* strict comparison at line 63
TriggersStrict(absolute_theta, threshold) == Gt(absolute_theta, threshold)

\* the operands of line 63 are swapped
TriggersSwapped(absolute_theta, threshold) == Geq(threshold, absolute_theta)

Triggers(absolute_theta, threshold) == Geq(absolute_theta, threshold)

\* the id skips a value at a boundary
NextGroupingIdSkip(id) == id + 2

NextGroupingId(id) == id + 1

\* the reset of line 65 is missing
CarryTheta(theta) == theta

ResetTheta(theta) == Zero

\* the assignment of line 69 is missing
PreviousTimeStale(k) == previous_time

NextPreviousTime(k) == k

\* the previous boundary is not subtracted
TimeDeltaFromStart(k, previous) == Fin(k, 1)

TimeDelta(k, previous) == Fin(k - previous, 1)

\* target_column[:k] as a sequence
Prefix(a, k) == [j \in 1 .. k |-> a[j - 1]]

\* the span of line 75 is used at line 71 as well
ExpectedTicksFixedSpan(deltas) ==
    Last(exponential_weighted_moving_average(deltas, initial_expected_ticks))

ExpectedTicks(deltas) ==
    Last(exponential_weighted_moving_average(deltas, Len(deltas)))

ExpectedBarValue(a, k, ticks) ==
    Abs(Last(exponential_weighted_moving_average(Prefix(a, k), ticks)))

\* ------------------------------------------------------ the state machine
Init ==
    /\ \E len \in 0 .. MaxLen :
           target_column \in [0 .. len - 1 -> FeatureValues]
    /\ initial_expected_ticks \in TickSeeds
    /\ initial_bar_size \in BarSeeds
    /\ pc = "start"
    /\ i = 0
    /\ absolute_thetas = << >>
    /\ thresholds = << >>
    /\ thetas = << >>
    /\ grouping_ids = << >>
    /\ current_theta = Zero
    /\ current_grouping_id = 0
    /\ time_deltas = << >>
    /\ times = << >>
    /\ previous_time = 0
    /\ expected_ticks = Zero
    /\ expected_bar_value = Zero
    /\ start_time = 0
    /\ clock = 1
    /\ progress = <<0, 0, 0>>
    /\ run = 1
    /\ first = << >>

\* lines 32-39 on an empty series: the buffers are allocated, then
\* target_column[0] raises IndexError.
SeedFail ==
    /\ pc = "start"
    /\ num_values = 0
    /\ absolute_thetas' = Zeros(num_values)
    /\ thresholds' = Zeros(num_values)
    /\ thetas' = Zeros(num_values)
    /\ grouping_ids' = ZeroIds(num_values)
    /\ pc' = "error"
    /\ UNCHANGED <<inputs, i, current_theta, current_grouping_id,
                   time_deltas, times, previous_time, expected_ticks,
                   expected_bar_value, start_time, clock, progress,
                   run, first>>

\* lines 32-51
Seed ==
    /\ pc = "start"
    /\ num_values >= 1
    /\ current_theta' = SeedTheta(target_column)
    /\ thetas' = [Zeros(num_values) EXCEPT ![0] = current_theta']
    /\ absolute_thetas' =
           [Zeros(num_values) EXCEPT ![0] = Abs(current_theta')]
    /\ thresholds' = Zeros(num_values)
    /\ current_grouping_id' = 0
    /\ grouping_ids' = ZeroIds(num_values)
    /\ time_deltas' = FreshList
    /\ times' = << >>
    /\ previous_time' = 0
    /\ expected_ticks' = SeedTicks(initial_expected_ticks)
    /\ expected_bar_value' = SeedBarValue(initial_bar_size)
    /\ start_time' = clock
    /\ clock' = clock + 1
    /\ i' = FirstIndex
    /\ pc' = "scan"
    /\ UNCHANGED <<inputs, progress, run, first>>

\* lines 54-61 and 80, common to every iteration
Accumulate(boundary) ==
    LET theta == NextTheta(current_theta, target_column[i])
    IN  /\ thetas' = [thetas EXCEPT ![i] = theta]
        /\ absolute_thetas' = [absolute_thetas EXCEPT ![i] = Abs(theta)]
        /\ thresholds' = [thresholds EXCEPT
               ![i] = Threshold(expected_ticks, expected_bar_value)]
        /\ grouping_ids' = [grouping_ids EXCEPT
               ![i] = GroupIdAt(current_grouping_id, boundary)]
        /\ progress' = <<i, num_values, start_time>>
        /\ i' = i + 1

IsBoundary ==
    Triggers(Abs(NextTheta(current_theta, target_column[i])),
             Threshold(expected_ticks, expected_bar_value))

\* one iteration of the loop whose test at line 63 fails
StepQuiet ==
    /\ pc = "scan"
    /\ i < num_values
    /\ ~IsBoundary
    /\ Accumulate(FALSE)
    /\ current_theta' = NextTheta(current_theta, target_column[i])
    /\ UNCHANGED <<inputs, pc, current_grouping_id, time_deltas, times,
                   previous_time, expected_ticks, expected_bar_value,
                   start_time, clock, run, first>>

\* one iteration of the loop whose test at line 63 succeeds
StepBoundary ==
    /\ pc = "scan"
    /\ i < num_values
    /\ IsBoundary
    /\ Accumulate(TRUE)
    /\ current_grouping_id' = NextGroupingId(current_grouping_id)
    /\ current_theta' =
           ResetTheta(NextTheta(current_theta, target_column[i]))
    /\ time_deltas' = Append(time_deltas, TimeDelta(i, previous_time))
    /\ times' = Append(times, i)
    /\ previous_time' = NextPreviousTime(i)
    /\ expected_ticks' = ExpectedTicks(time_deltas')
    /\ expected_bar_value' =
           ExpectedBarValue(target_column, i, initial_expected_ticks)
    /\ UNCHANGED <<inputs, pc, start_time, clock, run, first>>

\* line 82
Return ==
    /\ pc = "scan"
    /\ i = num_values
    /\ pc' = "done"
    /\ UNCHANGED <<inputs, i, absolute_thetas, thresholds, thetas,
                   grouping_ids, current_theta, current_grouping_id,
                   time_deltas, times, previous_time, expected_ticks,
                   expected_bar_value, start_time, clock, progress,
                   run, first>>

\* the caller invokes the function again on the same arguments
Rerun ==
    /\ pc = "done"
    /\ run < MaxRuns
    /\ run' = run + 1
    /\ first' = IF run = 1 THEN Outputs ELSE first
    /\ pc' = "start"
    /\ UNCHANGED <<inputs, i, absolute_thetas, thresholds, thetas,
                   grouping_ids, current_theta, current_grouping_id,
                   time_deltas, times, previous_time, expected_ticks,
                   expected_bar_value, start_time, clock, progress>>

Next ==
    \/ SeedFail
    \/ Seed
    \/ StepQuiet
    \/ StepBoundary
    \/ Return
    \/ Rerun

Spec == Init /\ [][Next]_vars

\* ------------------------------------------- the documented scenarios
Constant(v, len) == [k \in 0 .. len - 1 |-> v]

\* the empty series, every series of length 1, six ones, ten zeros
ScenarioSeries ==
    {Constant(v, 1) : v \in FeatureValues \cup {Fin(5, 1)}}
        \cup {Constant(Zero, 0), Constant(Fin(1, 1), 6), Constant(Zero, 10)}

ScenarioBarSeeds == BarSeeds \cup {Fin(1, 1)}

InitScenario ==
    /\ target_column \in ScenarioSeries
    /\ initial_expected_ticks \in TickSeeds
    /\ initial_bar_size \in ScenarioBarSeeds
    /\ pc = "start"
    /\ i = 0
    /\ absolute_thetas = << >>
    /\ thresholds = << >>
    /\ thetas = << >>
    /\ grouping_ids = << >>
    /\ current_theta = Zero
    /\ current_grouping_id = 0
    /\ time_deltas = << >>
    /\ times = << >>
    /\ previous_time = 0
    /\ expected_ticks = Zero
    /\ expected_bar_value = Zero
    /\ start_time = 0
    /\ clock = 1
    /\ progress = <<0, 0, 0>>
    /\ run = 1
    /\ first = << >>

SpecScenario == InitScenario /\ [][Next]_vars

\* ------------------------------------------------------ vocabulary
ValidInput ==
    /\ num_values >= 1
    /\ initial_expected_ticks >= 1
    /\ Gt(initial_bar_size, Zero)

FiniteInput == \A k \in DOMAIN target_column : IsFinite(target_column[k])

\* indices whose iteration has completed in the current invocation
Processed == IF pc \in {"scan", "done"} THEN 0 .. i - 1 ELSE {}

BoundaryIndices == {times[k] : k \in 1 .. Len(times)}

TypeOK ==
    /\ pc \in {"start", "scan", "done", "error"}
    /\ i \in Nat
    /\ run \in 1 .. MaxRuns

\* ------------------------------------------------------ properties
LastIndex == num_values - 1

GroupIdNonDecreasing ==
    \A a, b \in Processed : a <= b => grouping_ids[a] <= grouping_ids[b]

\* C1 as stated: for every valid input the returned GroupId is
\* non-decreasing and GroupId[n-1] = len(TimeDeltas), also when the last
\* index is a boundary.
C1_FinalIdIsBoundaryCount ==
    (pc = "done" /\ ValidInput) =>
        /\ GroupIdNonDecreasing
        /\ grouping_ids[LastIndex] = Len(time_deltas)

\* C1 amended: for every valid input the returned GroupId is
\* non-decreasing, and GroupId[n-1] = len(TimeDeltas) when n-1 is not a
\* boundary, len(TimeDeltas) - 1 when a boundary is declared at n-1.
C1_FinalIdCountsEarlierBoundaries ==
    (pc = "done" /\ ValidInput) =>
        /\ GroupIdNonDecreasing
        /\ grouping_ids[LastIndex] =
               Len(time_deltas)
                   - (IF LastIndex \in BoundaryIndices THEN 1 ELSE 0)

C1_Witness ==
    /\ pc = "done"
    /\ ValidInput
    /\ Len(time_deltas) >= 2
    /\ LastIndex \in BoundaryIndices

\* C2 as stated: at every index i, AbsStatistic[i] >= Threshold[i] holds
\* if and only if i is a boundary index, index 0 included.
C2_TriggerExactEverywhere ==
    \A j \in Processed :
        Geq(absolute_thetas[j], thresholds[j]) <=> j \in BoundaryIndices

\* C2 amended: at every index i >= 1, AbsStatistic[i] >= Threshold[i]
\* holds if and only if i is a boundary index.
C2_TriggerExactFromOne ==
    \A j \in Processed \ {0} :
        Geq(absolute_thetas[j], thresholds[j]) <=> j \in BoundaryIndices

C2_Witness ==
    /\ pc = "done"
    /\ \E j \in Processed \ {0} :
           /\ j \in BoundaryIndices
           /\ absolute_thetas[j] = thresholds[j]
    /\ \E j \in Processed \ {0} : j \notin BoundaryIndices

\* C3: when a precondition is violated (empty series, seed ticks < 1, seed
\* bar size <= 0) the call fails before the scan: it is never scanning and
\* never returns.
C3_InvalidInputNeverScans ==
    ~ValidInput => pc \in {"start", "error"}

RECURSIVE SumSeq(_)
SumSeq(s) == IF s = << >> THEN Zero ELSE Add(s[1], SumSeq(Tail(s)))

\* C4: TimeDeltas[0] = BoundaryIndices[0] - 0, TimeDeltas[k] =
\* BoundaryIndices[k] - BoundaryIndices[k-1] for k >= 1, and with at least
\* one boundary the sum of TimeDeltas is the last boundary index.
C4_TimeDeltasAreGaps ==
    /\ \A k \in 1 .. Len(times) :
           time_deltas[k] =
               Fin(times[k] - (IF k = 1 THEN 0 ELSE times[k - 1]), 1)
    /\ Len(times) >= 1 => SumSeq(time_deltas) = Fin(Last(times), 1)

C4_Witness ==
    /\ pc = "done"
    /\ Len(times) >= 2
    /\ times[1] >= 2
    /\ Len(time_deltas) = Len(times)

C6_GroupIdStepsAtBoundaries ==
    \A j \in Processed :
        (j + 1) \in Processed =>
            grouping_ids[j + 1] =
                grouping_ids[j] + (IF j \in BoundaryIndices THEN 1 ELSE 0)

C6_Witness ==
    /\ pc = "done"
    /\ \E j \in BoundaryIndices : (j + 1) \in Processed
    /\ \E j \in Processed \ BoundaryIndices : j >= 1 /\ (j + 1) \in Processed

\* C7: right after a boundary at i (i+1 < n) the statistic restarts:
\* Statistic[i+1] = features[i+1] and AbsStatistic[i+1] = |features[i+1]|.
C7_StatisticRestartsAfterBoundary ==
    pc \in {"scan", "done"} =>
        \A j \in BoundaryIndices :
            (j + 1) \in Processed =>
                /\ thetas[j + 1] = target_column[j + 1]
                /\ absolute_thetas[j + 1] = Abs(target_column[j + 1])

C7_Witness ==
    /\ pc = "done"
    /\ \E j \in BoundaryIndices :
           /\ (j + 1) \in Processed
           /\ IsFinite(thetas[j]) /\ ~IsZero(thetas[j])
           /\ IsFinite(thetas[j + 1]) /\ ~IsZero(thetas[j + 1])

\* C8: AbsStatistic, Threshold, Statistic and GroupId have the length of
\* the feature series, and TimeDeltas and BoundaryIndices have equal
\* length in every state of the scan.
C8_OutputLengths ==
    /\ pc # "start" =>
           /\ DOMAIN absolute_thetas = DOMAIN target_column
           /\ DOMAIN thresholds = DOMAIN target_column
           /\ DOMAIN thetas = DOMAIN target_column
           /\ DOMAIN grouping_ids = DOMAIN target_column
    /\ Len(time_deltas) = Len(times)

C8_Witness ==
    /\ pc = "scan"
    /\ i < num_values
    /\ Len(times) >= 2

\* C9: on valid seeds, a boundary whose smoothing window holds a
\* non-finite value makes the call fail at once, so no later threshold is
\* computed from it.
C9_NonFiniteWindowFails ==
    [][(/\ ValidInput
        /\ pc = "scan"
        /\ i < num_values
        /\ IsBoundary
        /\ \E j \in 0 .. i - 1 : ~IsFinite(target_column[j]))
       => pc' = "error"]_vars

\* C10: a second invocation on the same arguments returns the same six
\* outputs as the first, whatever the progress report was given.
C10_RerunReturnsSameOutputs ==
    (pc = "done" /\ run > 1) => Outputs = first

C10_Witness ==
    /\ pc = "done"
    /\ run > 1
    /\ Len(times) >= 2
    /\ progress[3] = start_time
    /\ start_time > 1

SeedProduct == Mul(Fin(initial_expected_ticks, 1), initial_bar_size)

\* C11: while no boundary has been triggered, TimeDeltas and
\* BoundaryIndices are empty, GroupId is 0 at every scanned index, both
\* estimates are at their seeds and Threshold[i] is the seed product for
\* every scanned i >= 1; and in every run Threshold[1] is the seed product.
C11_NoBoundaryKeepsSeeds ==
    pc \in {"scan", "done"} =>
        /\ times = << >> =>
               /\ time_deltas = << >>
               /\ \A j \in Processed : grouping_ids[j] = 0
               /\ expected_ticks = Fin(initial_expected_ticks, 1)
               /\ expected_bar_value = initial_bar_size
               /\ \A j \in Processed \ {0} : thresholds[j] = SeedProduct
        /\ 1 \in Processed => thresholds[1] = SeedProduct

C11_Witness ==
    /\ pc = "done"
    /\ ValidInput
    /\ num_values >= 3
    /\ times = << >>
    /\ ~IsZero(target_column[1])
    /\ initial_bar_size # Fin(1, 1)

\* C12: for a series of length 1 the loop body never runs and the call
\* returns GroupId = [0], TimeDeltas = [], BoundaryIndices = [],
\* Statistic = [features[0]], AbsStatistic = [|features[0]|],
\* Threshold = [0].
C12_SingleElementSeries ==
    /\ [](pc = "done" /\ num_values = 1 =>
             /\ grouping_ids = Constant(0, 1)
             /\ time_deltas = << >>
             /\ times = << >>
             /\ thetas = Constant(target_column[0], 1)
             /\ absolute_thetas =
                    Constant([n |-> IAbs(target_column[0].n),
                              d |-> target_column[0].d], 1)
             /\ thresholds = Constant(Zero, 1))
    /\ [][(pc = "scan" /\ num_values = 1) => pc' = "done"]_vars

C12_Witness ==
    /\ pc = "done"
    /\ target_column = Constant(Fin(5, 1), 1)
    /\ initial_expected_ticks = 3
    /\ initial_bar_size = Fin(2, 1)
    /\ grouping_ids = Constant(0, 1)
    /\ thetas = Constant(Fin(5, 1), 1)

AllZero == \A k \in DOMAIN target_column : target_column[k] = Zero

\* C13: on an all-zero series with valid seeds AbsStatistic is 0 at every
\* index, no boundary is triggered and GroupId is 0 at every index.
C13_AllZeroSeriesHasNoBoundary ==
    (pc \in {"scan", "done"} /\ ValidInput /\ AllZero) =>
        /\ \A j \in Processed :
               absolute_thetas[j] = Zero /\ grouping_ids[j] = 0
        /\ times = << >>
        /\ time_deltas = << >>

C13_Witness ==
    /\ pc = "done"
    /\ ValidInput
    /\ AllZero
    /\ num_values = 10
    /\ i = 10

SixOnes ==
    /\ target_column = Constant(Fin(1, 1), 6)
    /\ initial_expected_ticks = 2
    /\ initial_bar_size = Fin(1, 1)

\* C14: for features = [1,1,1,1,1,1], ticks 2, bar size 1.0, Threshold[1]
\* is 2, the first boundary is at an index <= 2, BoundaryIndices is not
\* empty and the final GroupId is >= 1.
C14_SixOnesScenario ==
    (pc = "done" /\ SixOnes) =>
        /\ thresholds[1] = Fin(2, 1)
        /\ Len(times) >= 1
        /\ times[1] <= 2
        /\ grouping_ids[LastIndex] >= 1

C14_Witness ==
    /\ pc = "done"
    /\ SixOnes
    /\ times = <<1, 2, 3, 4, 5>>
    /\ grouping_ids[5] = 4

\* target_column[0 .. k] as a sequence, element k included
PrefixThrough(a, k) == [j \in 1 .. k + 1 |-> a[j - 1]]

\* C15: on a valid input, a boundary at i sets the bar estimate to the
\* absolute value of the last smoothing output over features[0 .. i],
\* features[i] included, with span initial_expected_ticks.
C15_BarEstimateIncludesBoundaryElement ==
    [][(ValidInput /\ pc = "scan" /\ i < num_values /\ IsBoundary) =>
          expected_bar_value' =
              Abs(Last(exponential_weighted_moving_average(
                       PrefixThrough(target_column, i),
                       initial_expected_ticks)))]_vars

\* C16: the k-th boundary sets the tick estimate to the last smoothing
\* output over the whole of TimeDeltas, the new entry included, with
\* span k.
C16_TickEstimateFromAllTimeDeltas ==
    [][(pc = "scan" /\ i < num_values /\ IsBoundary) =>
          /\ Len(time_deltas') = Len(time_deltas) + 1
          /\ Last(time_deltas') = Fin(i - previous_time, 1)
          /\ expected_ticks' =
                 Last(exponential_weighted_moving_average(
                          time_deltas', Len(times')))]_vars

C16_Witness ==
    /\ pc = "done"
    /\ ValidInput
    /\ Len(time_deltas) = 2
    /\ time_deltas[1] # time_deltas[2]
    /\ expected_ticks # time_deltas[2]
    /\ expected_ticks # Fin(initial_expected_ticks, 1)

\* C17: an iteration i >= 1 that ends with AbsStatistic[i] < Threshold[i]
\* leaves the group id, the previous boundary index, both estimates,
\* TimeDeltas and BoundaryIndices unchanged and writes the outputs at
\* index i only; so Threshold[i+1] = Threshold[i] after a step without
\* boundary.
C17_QuietStepFrame ==
    /\ [][(/\ pc = "scan"
           /\ i < num_values
           /\ Gt(thresholds'[i], absolute_thetas'[i]))
          => /\ UNCHANGED <<current_grouping_id, previous_time,
                            expected_ticks, expected_bar_value,
                            time_deltas, times>>
             /\ \A j \in DOMAIN thetas \ {i} :
                    /\ thetas'[j] = thetas[j]
                    /\ absolute_thetas'[j] = absolute_thetas[j]
                    /\ thresholds'[j] = thresholds[j]
                    /\ grouping_ids'[j] = grouping_ids[j]]_vars
    /\ [](\A j \in Processed \ {0} :
             ((j + 1) \in Processed /\ j \notin BoundaryIndices) =>
                 thresholds[j + 1] = thresholds[j])

C17_Witness ==
    /\ pc = "done"
    /\ ValidInput
    /\ \E j \in Processed \ {0} :
           /\ (j + 1) \in Processed
           /\ j \notin BoundaryIndices
           /\ Gt(thresholds[j], absolute_thetas[j])
           /\ thresholds[j] # SeedProduct

\* C18: after seeding, Statistic[0] = features[0], AbsStatistic[0] =
\* |features[0]|, GroupId[0] = 0, Threshold[0] = 0, index 0 is never a
\* boundary and Statistic[1] = features[0] + features[1].
C18_Seeding ==
    pc \in {"scan", "done"} =>
        /\ thetas[0] = target_column[0]
        /\ absolute_thetas[0] = Abs(target_column[0])
        /\ grouping_ids[0] = 0
        /\ thresholds[0] = Zero
        /\ 0 \notin BoundaryIndices
        /\ 1 \in Processed =>
               thetas[1] = Add(target_column[0], target_column[1])

C18_Witness ==
    /\ pc = "done"
    /\ 1 \in Processed
    /\ IsFinite(target_column[0]) /\ ~IsZero(target_column[0])
    /\ IsFinite(target_column[1]) /\ ~IsZero(target_column[1])
    /\ Geq(absolute_thetas[0], SeedProduct)

\* the sum features[lo] + ... + features[hi], accumulated from zero
RECURSIVE RangeSum(_, _, _)
RangeSum(a, lo, hi) ==
    IF lo > hi THEN Zero ELSE Add(RangeSum(a, lo, hi - 1), a[hi])

\* the first index of the bar that is open at index j
BarStart(j) ==
    LET earlier == {b \in BoundaryIndices : b < j}
    IN  IF earlier = {} THEN 0
        ELSE (CHOOSE b \in earlier : \A c \in earlier : c <= b) + 1

\* C19: at every scanned i >= 1, Statistic[i] is the signed sum of the
\* features from the index after the last boundary before i (or from 0)
\* through i, and AbsStatistic[i] is its absolute value.
C19_StatisticIsOpenBarSum ==
    \A j \in Processed \ {0} :
        /\ thetas[j] = RangeSum(target_column, BarStart(j), j)
        /\ absolute_thetas[j] =
               Abs(RangeSum(target_column, BarStart(j), j))

C19_Witness ==
    /\ pc = "done"
    /\ FiniteInput
    /\ \E j \in Processed \ {0} :
           /\ BarStart(j) >= 2
           /\ j >= BarStart(j) + 1
           /\ thetas[j] # absolute_thetas[j]

\* C20: BoundaryIndices is strictly increasing with elements in 1 .. n-1,
\* every TimeDeltas entry is >= 1, and the previous boundary index is the
\* last element of BoundaryIndices, or 0 when there is none.
C20_BoundaryIndicesWellFormed ==
    pc \in {"scan", "done"} =>
        /\ \A k \in 1 .. Len(times) : times[k] \in 1 .. num_values - 1
        /\ \A k \in 1 .. Len(times) - 1 : times[k] < times[k + 1]
        /\ \A k \in 1 .. Len(time_deltas) :
               Geq(time_deltas[k], Fin(1, 1))
        /\ previous_time = IF times = << >> THEN 0 ELSE Last(times)

C20_Witness ==
    /\ pc = "done"
    /\ Len(times) >= 2
    /\ times[1] = 1
    /\ times[2] >= 3

====
